---------------------------- MODULE Spec2Model ----------------------------
(***************************************************************************)
(* Model of the time-tracking core of the clock application: the fields    *)
(* of AppModel that hold the clock, the stopwatch, the timer, the alarms   *)
(* and the alarm edit draft, and one action per Message handled by         *)
(* AppModel::update (src/src/app.rs).                                      *)
(*                                                                         *)
(* Durations and timestamps are integers in milliseconds.  A timestamp is  *)
(* the number of milliseconds since midnight of day 0 in local time.       *)
(* An Option<T> is a sequence of length at most one: <<>> is None and      *)
(* <<x>> is Some(x).  A notification and a message are tuples whose first  *)
(* element is the variant's name.                                          *)
(***************************************************************************)
EXTENDS Integers, Sequences, FiniteSets, TLC

VARIABLES
    current_time,       \* AppModel.current_time (timestamp, ms)
    stopwatch_time,     \* AppModel.stopwatch_time (ms)
    stopwatch_running,  \* AppModel.stopwatch_running
    timer_duration,     \* AppModel.timer_duration (ms)
    timer_remaining,    \* AppModel.timer_remaining (ms)
    timer_running,      \* AppModel.timer_running
    alarms,             \* AppModel.alarms: sequence of AlarmItem
    next_alarm_id,      \* AppModel.next_alarm_id
    editing_alarm,      \* AppModel.editing_alarm: Option<AlarmEdit>
    message,            \* the Message handled by the last call of update
    notifications,      \* the notifications that call sent, in order
    firedAt,            \* history: <<alarm id, calendar minute>> of every AlarmFired
    created,            \* history: the ids of all alarms ever created, in order
    saved_draft,        \* the draft the last call found, when it was SaveAlarm
    ticks               \* history: <<period, timestamp>> of the ticks the streams
                        \* of the subscription delivered in the last second

vars == <<current_time, stopwatch_time, stopwatch_running, timer_duration,
          timer_remaining, timer_running, alarms, next_alarm_id,
          editing_alarm, message, notifications, firedAt, created,
          saved_draft, ticks>>

stopwatchVars == <<stopwatch_time, stopwatch_running>>
timerVars == <<timer_duration, timer_remaining, timer_running>>
alarmVars == <<alarms, next_alarm_id, editing_alarm, created>>

---------------------------------------------------------------------------
(* Bounds of the model and constants of the program.                       *)

\* Number of 100 ms steps after the start time at which a tick may land
\* (timer and stopwatch specification).
MaxFine == 11
\* Last day (counted from day 0) on which a tick may land (alarm specification).
MaxDay == 2
\* Largest number of alarms held at once, and the largest id handed out.
MaxAlarms == 2
MaxAlarmId == 3

\* Duration::from_millis(100): what one UpdateTime adds to the stopwatch and
\* takes from the timer.
TickMillis == 100
\* Duration::from_secs(300): the timer's duration after construction.
DefaultTimerSecs == 300
\* next_alarm_id after construction.
FirstAlarmId == 1

---------------------------------------------------------------------------
(* Time: chrono's accessors and constructors, std::time::Duration.         *)

\* Duration::from_secs
from_secs(s) == s * 1000
\* Duration::as_secs: whole seconds, the sub-second part dropped
as_secs(d) == d \div 1000
\* Duration::saturating_sub
saturating_sub(a, b) == IF a >= b THEN a - b ELSE 0

\* The timestamp of day d, h:m:s and ms milliseconds.
Timestamp(d, h, m, s, ms) == (((d * 24 + h) * 60 + m) * 60 + s) * 1000 + ms
\* DateTime::time(): the time of day (ms since midnight)
time_of(t) == t % 86400000
\* Timelike::hour, minute, second of a time of day in ms
hour(t) == (t \div 3600000) % 24
minute(t) == (t \div 60000) % 60
second(t) == (t \div 1000) % 60
\* The calendar minute a timestamp lies in (minutes since midnight of day 0).
CalendarMinute(t) == t \div 60000

\* NaiveTime::from_hms_opt: None when a field is out of range
from_hms_opt(h, m, s) ==
    IF h <= 23 /\ m <= 59 /\ s <= 59
    THEN << ((h * 60 + m) * 60 + s) * 1000 >>
    ELSE << >>
\* Option::unwrap_or_else
unwrap_or_else(opt, default) == IF opt = << >> THEN default ELSE opt[1]
\* NaiveTime::format("%H:%M"): the hour and minute fields
format_HM(t) == << hour(t), minute(t) >>
\* format!("{:02}:{:02}:{:02}", secs / 3600, (secs % 3600) / 60, secs % 60)
format_stopwatch(d) ==
    << as_secs(d) \div 3600, (as_secs(d) % 3600) \div 60, as_secs(d) % 60 >>
\* Mutant of min: the value is stored as it was typed.
unclamped(a, b) == a

\* u32::min
min(a, b) == IF a <= b THEN a ELSE b

---------------------------------------------------------------------------
(* Notifications (src/src/notifications.rs and the AlarmSet toast).        *)

send_alarm_notification(label, time) == << "AlarmFired", label, time >>
send_timer_notification == << "TimerExpired" >>
send_stopwatch_notification(time) == << "StopwatchStopped", time >>
alarm_set_notification(time) == << "AlarmSet", time >>

---------------------------------------------------------------------------
(* Inputs.                                                                 *)

\* chrono::Local::now() at construction: day 0, 07:59:30.000
StartTime == Timestamp(0, 7, 59, 30, 0)
\* Timestamps of ticks in 100 ms steps after the start time.
FineInstants == { StartTime + k * TickMillis : k \in 1..MaxFine }
\* Timestamps of ticks of each day a second or more apart: 08:00:00.000 and
\* 08:00:01.000.
AlarmInstants ==
    UNION { { Timestamp(d, 8, 0, 0, 0), Timestamp(d, 8, 0, 1, 0) } : d \in 0..MaxDay }
\* The same with the tick 100 ms after 08:00:00.000 of each day.
FastInstants ==
    AlarmInstants \cup { Timestamp(d, 8, 0, 0, TickMillis) : d \in 0..MaxDay }
MinuteArgs == {0, 2}
SecondArgs == {0, 1, 30}
HourInputs == {8, 24}
MinuteInputs == {1}
\* Minutes typed into the draft's minute field, in and out of range.
WideMinuteInputs == {1, 60}
LabelInputs == {"wake"}
AlarmIds == FirstAlarmId..MaxAlarmId

---------------------------------------------------------------------------
(* AppModel::init                                                          *)

Init ==
    /\ current_time = StartTime
    /\ stopwatch_time = 0
    /\ stopwatch_running = FALSE
    /\ timer_duration = from_secs(DefaultTimerSecs)
    /\ timer_remaining = from_secs(DefaultTimerSecs)
    /\ timer_running = FALSE
    /\ alarms = << >>
    /\ next_alarm_id = FirstAlarmId
    /\ editing_alarm = << >>
    /\ message = << "Init" >>
    /\ notifications = << >>
    /\ firedAt = {}
    /\ created = << >>
    /\ saved_draft = << >>
    /\ ticks = {}

---------------------------------------------------------------------------
(* AppModel::check_alarms and Message::UpdateTime                          *)

\* Mutant of alarm_triggers: the second of the tick is not looked at.
alarm_triggers_any_second(alarm, now) ==
    /\ alarm.enabled
    /\ hour(alarm.time) = hour(time_of(now))
    /\ minute(alarm.time) = minute(time_of(now))

\* The condition under which check_alarms sends an alarm's notification.
alarm_triggers(alarm, now) ==
    /\ alarm.enabled
    /\ hour(alarm.time) = hour(time_of(now))
    /\ minute(alarm.time) = minute(time_of(now))
    /\ second(time_of(now)) = 0

\* The notifications check_alarms sends, in the order of the alarm list.
RECURSIVE check_alarms(_, _)
check_alarms(list, now) ==
    IF list = << >> THEN << >>
    ELSE (IF alarm_triggers(Head(list), now)
          THEN << send_alarm_notification(Head(list).label,
                                          format_HM(Head(list).time)) >>
          ELSE << >>) \o check_alarms(Tail(list), now)

\* Mutant of tick_stopwatch: a stopped stopwatch counts too.
tick_stopwatch_always(elapsed, running) == elapsed + TickMillis

\* The stopwatch after a tick.
tick_stopwatch(elapsed, running) ==
    IF running THEN elapsed + TickMillis ELSE elapsed

\* Mutant of timer_counts: a timer at zero still takes the branch.
timer_counts_while_running(remaining, running) == running

\* Whether the tick takes the timer's branch.
timer_counts(remaining, running) == running /\ remaining > 0

\* The timer's remaining time after a tick.
tick_timer(remaining, running) ==
    IF timer_counts(remaining, running)
    THEN saturating_sub(remaining, TickMillis)
    ELSE remaining

UpdateTime(now) ==
    LET remaining == tick_timer(timer_remaining, timer_running)
        expired == timer_counts(timer_remaining, timer_running) /\ remaining = 0
    IN  /\ current_time' = now
        /\ stopwatch_time' = tick_stopwatch(stopwatch_time, stopwatch_running)
        /\ timer_remaining' = remaining
        /\ timer_running' = IF expired THEN FALSE ELSE timer_running
        /\ notifications' =
              (IF expired THEN << send_timer_notification >> ELSE << >>)
              \o check_alarms(alarms, now)
        /\ firedAt' = firedAt \cup
              { << alarms[i].id, CalendarMinute(now) >> :
                    i \in { j \in DOMAIN alarms : alarm_triggers(alarms[j], now) } }
        /\ message' = << "UpdateTime", now >>
        /\ UNCHANGED << stopwatch_running, timer_duration, alarmVars >>
        /\ saved_draft' = << >>

\* AppModel::subscription: the period of the fastest stream of UpdateTime
\* messages, 100 ms while the stopwatch or the timer runs and 1 s otherwise.
tick_period == IF stopwatch_running \/ timer_running THEN TickMillis ELSE 1000

\* A tick may land at now: a period or more after the last one.
tick_due(now) == now - current_time >= tick_period

\* The periods of the streams AppModel::subscription batches: the 1 s stream
\* always, the 100 ms stream while the stopwatch or the timer runs.
subscription ==
    { 1000 } \cup (IF stopwatch_running \/ timer_running THEN { TickMillis } ELSE {})

\* Whether a stream ticks at an instant: a whole number of its periods after
\* the start.
ticks_at(period, t) == t > StartTime /\ (t - StartTime) % period = 0

\* Whether a stream still has to deliver its tick at the time of the clock:
\* it ticks then, has not delivered that tick, and was running a period
\* before (the 1 s stream runs from the start).
owes(period) ==
    /\ period \in subscription
    /\ ticks_at(period, current_time)
    /\ << period, current_time >> \notin ticks
    /\ ( period = 1000 \/ << period, current_time - period >> \in ticks )

\* A stream of the subscription delivers its tick at now: no stream has
\* skipped or still owes a tick before now.
Deliver(period, now) ==
    /\ period \in subscription
    /\ ticks_at(period, now)
    /\ << period, now >> \notin ticks
    /\ now >= current_time
    /\ now > current_time =>
          \A p \in subscription :
             /\ ~ owes(p)
             /\ \A u \in FineInstants :
                   ~ ( current_time < u /\ u < now /\ ticks_at(p, u) )
    /\ UpdateTime(now)
    /\ ticks' = { e \in ticks \cup { << period, now >> } : e[2] > now - 1000 }

\* A tick of one of the streams of the subscription.
TickStream ==
    \E period \in { 1000, TickMillis } : \E now \in FineInstants : Deliver(period, now)

\* A tick of the subscription at one of the 100 ms steps after the start.
TickTimer ==
    \E now \in FineInstants : tick_due(now) /\ UpdateTime(now) /\ UNCHANGED ticks

---------------------------------------------------------------------------
(* Stopwatch messages                                                      *)

StartStopwatch ==
    /\ stopwatch_running' = TRUE
    /\ message' = << "StartStopwatch" >>
    /\ notifications' = << >>
    /\ UNCHANGED << current_time, stopwatch_time, timerVars, alarmVars, firedAt >>
    /\ saved_draft' = << >>
    /\ UNCHANGED ticks

\* Mutant of stop_notifications: nothing is sent for a stopped stopwatch.
stop_notifications_if_running(elapsed, running) ==
    IF running
    THEN << send_stopwatch_notification(format_stopwatch(elapsed)) >>
    ELSE << >>

\* The notifications StopStopwatch sends.
stop_notifications(elapsed, running) ==
    << send_stopwatch_notification(format_stopwatch(elapsed)) >>

StopStopwatch ==
    /\ stopwatch_running' = FALSE
    /\ notifications' = stop_notifications(stopwatch_time, stopwatch_running)
    /\ message' = << "StopStopwatch" >>
    /\ UNCHANGED << current_time, stopwatch_time, timerVars, alarmVars, firedAt >>
    /\ saved_draft' = << >>
    /\ UNCHANGED ticks

ResetStopwatch ==
    /\ stopwatch_running' = FALSE
    /\ stopwatch_time' = 0
    /\ message' = << "ResetStopwatch" >>
    /\ notifications' = << >>
    /\ UNCHANGED << current_time, timerVars, alarmVars, firedAt >>
    /\ saved_draft' = << >>
    /\ UNCHANGED ticks

---------------------------------------------------------------------------
(* Timer messages                                                          *)

StartTimer ==
    /\ timer_running' = TRUE
    /\ message' = << "StartTimer" >>
    /\ notifications' = << >>
    /\ UNCHANGED << current_time, stopwatchVars, timer_duration, timer_remaining,
                    alarmVars, firedAt >>
    /\ saved_draft' = << >>
    /\ UNCHANGED ticks

StopTimer ==
    /\ timer_running' = FALSE
    /\ message' = << "StopTimer" >>
    /\ notifications' = << >>
    /\ UNCHANGED << current_time, stopwatchVars, timer_duration, timer_remaining,
                    alarmVars, firedAt >>
    /\ saved_draft' = << >>
    /\ UNCHANGED ticks

ResetTimer ==
    /\ timer_running' = FALSE
    /\ timer_remaining' = timer_duration
    /\ message' = << "ResetTimer" >>
    /\ notifications' = << >>
    /\ UNCHANGED << current_time, stopwatchVars, timer_duration, alarmVars, firedAt >>
    /\ saved_draft' = << >>
    /\ UNCHANGED ticks

\* Mutant of with_minutes: the seconds of the current duration are dropped.
with_minutes_only(duration, minutes) == from_secs(minutes * 60)

\* The duration SetTimerMinutes(minutes) computes from the current one.
with_minutes(duration, minutes) ==
    from_secs(minutes * 60 + (as_secs(duration) % 60))

\* The duration SetTimerSeconds(seconds) computes from the current one.
with_seconds(duration, seconds) ==
    from_secs((as_secs(duration) \div 60) * 60 + seconds)

\* Mutant of remaining_after_set: the remaining time is left as it was.
remaining_kept(remaining, duration) == remaining

\* The remaining time a setter stores with the new duration.
remaining_after_set(remaining, duration) == duration

SetTimerMinutes(minutes) ==
    /\ timer_duration' = with_minutes(timer_duration, minutes)
    /\ timer_remaining' = remaining_after_set(timer_remaining, timer_duration')
    /\ message' = << "SetTimerMinutes", minutes >>
    /\ notifications' = << >>
    /\ UNCHANGED << current_time, stopwatchVars, timer_running, alarmVars, firedAt >>
    /\ saved_draft' = << >>
    /\ UNCHANGED ticks

SetTimerSeconds(seconds) ==
    /\ timer_duration' = with_seconds(timer_duration, seconds)
    /\ timer_remaining' = remaining_after_set(timer_remaining, timer_duration')
    /\ message' = << "SetTimerSeconds", seconds >>
    /\ notifications' = << >>
    /\ UNCHANGED << current_time, stopwatchVars, timer_running, alarmVars, firedAt >>
    /\ saved_draft' = << >>
    /\ UNCHANGED ticks

SetMinutes == \E minutes \in MinuteArgs : SetTimerMinutes(minutes)
SetSeconds == \E seconds \in SecondArgs : SetTimerSeconds(seconds)

---------------------------------------------------------------------------
(* Alarm messages                                                          *)

\* iter().find(|a| a.id == id): the index of the first alarm with that id,
\* 0 when there is none.
find(list, id) ==
    IF \E i \in DOMAIN list : list[i].id = id
    THEN CHOOSE i \in DOMAIN list :
            /\ list[i].id = id
            /\ \A j \in DOMAIN list : list[j].id = id => i <= j
    ELSE 0

\* Vec::retain(|alarm| alarm.id != id)
retain_not(list, id) == SelectSeq(list, LAMBDA alarm : alarm.id # id)

\* Mutant of AddAlarm: a draft that exists is kept.
AddAlarm_keeps_draft ==
    /\ editing_alarm' =
          IF editing_alarm # << >>
          THEN editing_alarm
          ELSE << [ id |-> << >>,
                    hour |-> hour(time_of(current_time)),
                    minute |-> minute(time_of(current_time)),
                    label |-> "" ] >>
    /\ message' = << "AddAlarm" >>
    /\ notifications' = << >>
    /\ UNCHANGED << current_time, stopwatchVars, timerVars, alarms, next_alarm_id,
                    created, firedAt >>
    /\ saved_draft' = << >>
    /\ UNCHANGED ticks

AddAlarm ==
    /\ editing_alarm' = << [ id |-> << >>,
                             hour |-> hour(time_of(current_time)),
                             minute |-> minute(time_of(current_time)),
                             label |-> "" ] >>
    /\ message' = << "AddAlarm" >>
    /\ notifications' = << >>
    /\ UNCHANGED << current_time, stopwatchVars, timerVars, alarms, next_alarm_id,
                    created, firedAt >>
    /\ saved_draft' = << >>
    /\ UNCHANGED ticks

\* Mutant of EditAlarm: the draft is closed when no alarm has the id.
EditAlarm_or_close(id) ==
    /\ editing_alarm' =
          IF find(alarms, id) # 0
          THEN << [ id |-> << id >>,
                    hour |-> hour(alarms[find(alarms, id)].time),
                    minute |-> minute(alarms[find(alarms, id)].time),
                    label |-> alarms[find(alarms, id)].label ] >>
          ELSE << >>
    /\ message' = << "EditAlarm", id >>
    /\ notifications' = << >>
    /\ UNCHANGED << current_time, stopwatchVars, timerVars, alarms, next_alarm_id,
                    created, firedAt >>
    /\ saved_draft' = << >>
    /\ UNCHANGED ticks

EditAlarm(id) ==
    /\ editing_alarm' =
          IF find(alarms, id) # 0
          THEN << [ id |-> << id >>,
                    hour |-> hour(alarms[find(alarms, id)].time),
                    minute |-> minute(alarms[find(alarms, id)].time),
                    label |-> alarms[find(alarms, id)].label ] >>
          ELSE editing_alarm
    /\ message' = << "EditAlarm", id >>
    /\ notifications' = << >>
    /\ UNCHANGED << current_time, stopwatchVars, timerVars, alarms, next_alarm_id,
                    created, firedAt >>
    /\ saved_draft' = << >>
    /\ UNCHANGED ticks

DeleteAlarm(id) ==
    /\ alarms' = retain_not(alarms, id)
    /\ message' = << "DeleteAlarm", id >>
    /\ notifications' = << >>
    /\ UNCHANGED << current_time, stopwatchVars, timerVars, next_alarm_id,
                    editing_alarm, created, firedAt >>
    /\ saved_draft' = << >>
    /\ UNCHANGED ticks

ToggleAlarm(id) ==
    /\ alarms' =
          IF find(alarms, id) # 0
          THEN [ alarms EXCEPT ![find(alarms, id)].enabled = ~ @ ]
          ELSE alarms
    /\ message' = << "ToggleAlarm", id >>
    /\ notifications' = << >>
    /\ UNCHANGED << current_time, stopwatchVars, timerVars, next_alarm_id,
                    editing_alarm, created, firedAt >>
    /\ saved_draft' = << >>
    /\ UNCHANGED ticks

\* The time of day SaveAlarm stores for a draft.
draft_time(edit) ==
    unwrap_or_else(from_hms_opt(edit.hour, edit.minute, 0),
                   from_hms_opt(0, 0, 0)[1])

\* Mutant of save_existing: the alarm saved is enabled again.
save_and_enable(list, edit) ==
    IF find(list, edit.id[1]) # 0
    THEN [ list EXCEPT ![find(list, edit.id[1])].time = draft_time(edit),
                       ![find(list, edit.id[1])].label = edit.label,
                       ![find(list, edit.id[1])].enabled = TRUE ]
    ELSE list

\* Mutant of save_existing: an alarm that is not found is added again.
save_or_insert(list, edit) ==
    IF find(list, edit.id[1]) # 0
    THEN [ list EXCEPT ![find(list, edit.id[1])].time = draft_time(edit),
                       ![find(list, edit.id[1])].label = edit.label ]
    ELSE Append(list, [ id |-> edit.id[1], time |-> draft_time(edit),
                        label |-> edit.label, enabled |-> TRUE ])

\* The alarm list after SaveAlarm of a draft that names an alarm.
save_existing(list, edit) ==
    IF find(list, edit.id[1]) # 0
    THEN [ list EXCEPT ![find(list, edit.id[1])].time = draft_time(edit),
                       ![find(list, edit.id[1])].label = edit.label ]
    ELSE list

\* Mutant of new_alarm_id: the id is taken from the length of the list.
new_alarm_id_by_len(list, next) == Len(list) + 1

\* The id SaveAlarm gives a new alarm.
new_alarm_id(list, next) == next

\* The alarm list after SaveAlarm of a draft that names no alarm.
save_new(list, edit, next) ==
    Append(list, [ id |-> new_alarm_id(list, next), time |-> draft_time(edit),
                   label |-> edit.label, enabled |-> TRUE ])

\* next_alarm_id after SaveAlarm has added an alarm.
bump_alarm_id(next) == next + 1

SaveAlarm ==
    /\ message' = << "SaveAlarm" >>
    /\ saved_draft' = editing_alarm
    /\ UNCHANGED ticks
    /\ UNCHANGED << current_time, stopwatchVars, timerVars, firedAt >>
    /\ IF editing_alarm = << >>
       THEN /\ notifications' = << >>
            /\ UNCHANGED alarmVars
       ELSE LET edit == editing_alarm[1] IN
            IF edit.id # << >>
            THEN /\ alarms' = save_existing(alarms, edit)
                 /\ notifications' = << >>
                 /\ editing_alarm' = << >>
                 /\ created' = created \o
                       [ i \in 1..(Len(alarms') - Len(alarms)) |->
                             alarms'[Len(alarms) + i].id ]
                 /\ UNCHANGED next_alarm_id
            ELSE \* the list and the ids are capped by the bounds of the model
                 /\ Len(alarms) < MaxAlarms
                 /\ next_alarm_id <= MaxAlarmId
                 /\ alarms' = save_new(alarms, edit, next_alarm_id)
                 /\ next_alarm_id' = bump_alarm_id(next_alarm_id)
                 /\ notifications' =
                       << alarm_set_notification(format_HM(draft_time(edit))) >>
                 /\ editing_alarm' = << >>
                 /\ created' = Append(created, alarms'[Len(alarms')].id)

CancelAlarmEdit ==
    /\ editing_alarm' = << >>
    /\ message' = << "CancelAlarmEdit" >>
    /\ notifications' = << >>
    /\ UNCHANGED << current_time, stopwatchVars, timerVars, alarms, next_alarm_id,
                    created, firedAt >>
    /\ saved_draft' = << >>
    /\ UNCHANGED ticks

AlarmEditHour(h) ==
    /\ editing_alarm' =
          IF editing_alarm # << >>
          THEN << [ editing_alarm[1] EXCEPT !.hour = min(h, 23) ] >>
          ELSE editing_alarm
    /\ message' = << "AlarmEditHour", h >>
    /\ notifications' = << >>
    /\ UNCHANGED << current_time, stopwatchVars, timerVars, alarms, next_alarm_id,
                    created, firedAt >>
    /\ saved_draft' = << >>
    /\ UNCHANGED ticks

AlarmEditMinute(m) ==
    /\ editing_alarm' =
          IF editing_alarm # << >>
          THEN << [ editing_alarm[1] EXCEPT !.minute = min(m, 59) ] >>
          ELSE editing_alarm
    /\ message' = << "AlarmEditMinute", m >>
    /\ notifications' = << >>
    /\ UNCHANGED << current_time, stopwatchVars, timerVars, alarms, next_alarm_id,
                    created, firedAt >>
    /\ saved_draft' = << >>
    /\ UNCHANGED ticks

AlarmEditLabel(label) ==
    /\ editing_alarm' =
          IF editing_alarm # << >>
          THEN << [ editing_alarm[1] EXCEPT !.label = label ] >>
          ELSE editing_alarm
    /\ message' = << "AlarmEditLabel", label >>
    /\ notifications' = << >>
    /\ UNCHANGED << current_time, stopwatchVars, timerVars, alarms, next_alarm_id,
                    created, firedAt >>
    /\ saved_draft' = << >>
    /\ UNCHANGED ticks

\* A tick of the subscription in the minute alarms are set to.
TickAlarm ==
    \E now \in AlarmInstants : tick_due(now) /\ UpdateTime(now) /\ UNCHANGED ticks
\* The same, or a tick 100 ms after another one.
TickFast ==
    \E now \in FastInstants : tick_due(now) /\ UpdateTime(now) /\ UNCHANGED ticks

EditSome == \E id \in AlarmIds : EditAlarm(id)
DeleteSome == \E id \in AlarmIds : DeleteAlarm(id)
ToggleSome == \E id \in AlarmIds : ToggleAlarm(id)
EditHour == \E h \in HourInputs : AlarmEditHour(h)
EditMinute == \E m \in MinuteInputs : AlarmEditMinute(m)
EditLabel == \E label \in LabelInputs : AlarmEditLabel(label)
EditMinuteWide == \E m \in WideMinuteInputs : AlarmEditMinute(m)

---------------------------------------------------------------------------
(* The timer and stopwatch specification: ticks 100 ms or more apart and   *)
(* the stopwatch and timer messages.                                       *)

NextTimer ==
    \/ TickTimer
    \/ StartStopwatch
    \/ StopStopwatch
    \/ ResetStopwatch
    \/ StartTimer
    \/ StopTimer
    \/ ResetTimer
    \/ SetMinutes
    \/ SetSeconds

SpecTimer == Init /\ [][NextTimer]_vars

---------------------------------------------------------------------------
(* The alarm specification: the messages that build, change and save the   *)
(* alarm list and the draft.                                               *)

NextAlarm ==
    \/ AddAlarm
    \/ EditSome
    \/ DeleteSome
    \/ ToggleSome
    \/ SaveAlarm
    \/ CancelAlarmEdit
    \/ EditMinute
    \/ EditLabel

SpecAlarm == Init /\ [][NextAlarm]_vars

---------------------------------------------------------------------------
(* The alarm firing specification: ticks in the minute of 08:00 of several *)
(* days, a second or more apart, and alarms added, labelled and toggled.   *)

NextFire ==
    \/ TickAlarm
    \/ AddAlarm
    \/ SaveAlarm
    \/ EditLabel
    \/ ToggleSome

SpecFire == Init /\ [][NextFire]_vars

---------------------------------------------------------------------------
(* The same with the stopwatch started, after which the subscription       *)
(* sends ticks 100 ms apart.                                               *)

NextFireFast ==
    \/ TickFast
    \/ StartStopwatch
    \/ AddAlarm
    \/ SaveAlarm
    \/ EditLabel
    \/ ToggleSome

SpecFireFast == Init /\ [][NextFireFast]_vars

---------------------------------------------------------------------------
(* The draft specification: drafts opened for new and for existing alarms, *)
(* hours and minutes typed in and out of range, and drafts saved.          *)

NextDraft ==
    \/ AddAlarm
    \/ EditSome
    \/ SaveAlarm
    \/ EditHour
    \/ EditMinuteWide

SpecDraft == Init /\ [][NextDraft]_vars

---------------------------------------------------------------------------
(* The draft seeding specification: ticks that move the clock between      *)
(* drafts opened for new and for existing alarms, and drafts saved.        *)

NextSeed ==
    \/ TickAlarm
    \/ AddAlarm
    \/ EditSome
    \/ SaveAlarm

SpecSeed == Init /\ [][NextSeed]_vars

---------------------------------------------------------------------------
(* The subscription specification: every stream of the subscription        *)
(* delivers each of its ticks, and the stopwatch and the timer are started *)
(* and stopped between ticks.                                              *)

NextSubscription ==
    \/ TickStream
    \/ StartStopwatch
    \/ StopStopwatch
    \/ StartTimer
    \/ StopTimer

SpecSubscription == Init /\ [][NextSubscription]_vars

---------------------------------------------------------------------------
(* Properties.                                                             *)

\* The elements of a sequence.
Range(seq) == { seq[i] : i \in DOMAIN seq }
\* How many notifications of a kind a sequence holds.
CountKind(seq, kind) == Cardinality({ i \in DOMAIN seq : seq[i][1] = kind })
\* Whether the last call of update handled a message of that name.
Handled(msg, name) == msg[1] = name
\* The AlarmFired notification of an alarm: its label and its time as HH:MM.
AlarmFiredOf(alarm) ==
    << "AlarmFired", alarm.label,
       << alarm.time \div 3600000, (alarm.time \div 60000) % 60 >> >>
\* The alarms a tick at now must fire: enabled, set to now's hour and minute,
\* now being in second 0 of that minute.
DueAt(list, now) ==
    { i \in DOMAIN list :
        /\ list[i].enabled
        /\ list[i].time \div 60000 = (now % 86400000) \div 60000
        /\ (now % 60000) \div 1000 = 0 }

\* C1: an enabled alarm emits AlarmFired at most once per calendar minute,
\* however many ticks land in that minute: an alarm that fires on a tick has
\* not fired before in the calendar minute of that tick.
C1_AtMostOncePerMinute ==
    [][ \A i \in DOMAIN alarms :
          ( /\ Handled(message', "UpdateTime")
            /\ alarms[i].enabled
            /\ AlarmFiredOf(alarms[i]) \in Range(notifications') )
          => << alarms[i].id, message'[2] \div 60000 >> \notin firedAt ]_vars

\* C2: a tick emits exactly one TimerExpired and stops the timer when it
\* takes a running timer's remaining time from a positive value to zero, and
\* emits none otherwise; a tick of a timer at zero leaves it at zero; no other
\* message emits TimerExpired.
C2_ExpiryOncePerRunToZero ==
    [][ /\ ( Handled(message', "UpdateTime") /\ timer_running
             /\ timer_remaining > 0 /\ timer_remaining' = 0 )
           => ( CountKind(notifications', "TimerExpired") = 1
                /\ timer_running' = FALSE )
        /\ ( Handled(message', "UpdateTime")
             /\ ~ (timer_running /\ timer_remaining > 0 /\ timer_remaining' = 0) )
           => CountKind(notifications', "TimerExpired") = 0
        /\ ( Handled(message', "UpdateTime") /\ timer_remaining = 0 )
           => timer_remaining' = 0
        /\ ~ Handled(message', "UpdateTime")
           => CountKind(notifications', "TimerExpired") = 0 ]_vars

\* C2 witness: a tick has just taken the running timer to zero, sent
\* TimerExpired once and stopped the timer.
C2_Witness ==
    /\ Handled(message, "UpdateTime")
    /\ timer_remaining = 0
    /\ timer_duration > 0
    /\ ~ timer_running
    /\ CountKind(notifications, "TimerExpired") = 1

\* C3: while the stopwatch runs, a tick that follows a tick adds to elapsed the
\* wall time that has passed between the two.
C3_ElapsedFollowsWallTime ==
    [][ ( /\ Handled(message, "UpdateTime")
          /\ Handled(message', "UpdateTime")
          /\ stopwatch_running )
        => stopwatch_time' - stopwatch_time = message'[2] - current_time ]_vars

\* C4: the timer's remaining time is never negative and never more than the
\* configured duration.
C4_RemainingWithinDuration ==
    0 <= timer_remaining /\ timer_remaining <= timer_duration

\* C4 witness: the timer has counted part of a duration set by a setter down.
C4_Witness ==
    /\ Handled(message, "UpdateTime")
    /\ 0 < timer_remaining
    /\ timer_remaining < timer_duration
    /\ timer_duration # from_secs(DefaultTimerSecs)

\* C5: after a tick, a timer with nothing left to count is not running.
C5_NotRunningAtZero ==
    ( Handled(message, "UpdateTime") /\ timer_remaining = 0 ) => ~ timer_running

\* C6: no two alarms of the list share an id, every alarm of the list was
\* created by SaveAlarm, and every alarm created has an id greater than the
\* ids of all alarms created before it.
C6_IdsUniqueAndIncreasing ==
    /\ \A i, j \in DOMAIN alarms : i # j => alarms[i].id # alarms[j].id
    /\ \A i, j \in DOMAIN created : i < j => created[i] < created[j]
    /\ \A i \in DOMAIN alarms : alarms[i].id \in Range(created)

\* C6 witness: SaveAlarm has just added an alarm after an earlier alarm was
\* deleted.
C6_Witness ==
    /\ Handled(message, "SaveAlarm")
    /\ CountKind(notifications, "AlarmSet") = 1
    /\ Len(alarms) = 2
    /\ Len(created) = 3

\* C7: SaveAlarm of a draft whose target alarm is no longer in the list
\* leaves the list and the next id unchanged, sends nothing and clears the
\* draft.
C7_SaveOfDeletedTargetIsDropped ==
    [][ ( /\ Handled(message', "SaveAlarm")
          /\ editing_alarm # << >>
          /\ editing_alarm[1].id # << >>
          /\ \A i \in DOMAIN alarms : alarms[i].id # editing_alarm[1].id[1] )
        => ( /\ alarms' = alarms
             /\ next_alarm_id' = next_alarm_id
             /\ notifications' = << >>
             /\ editing_alarm' = << >> ) ]_vars

\* C7 witness: SaveAlarm has just handled an edit draft whose target is not
\* in the list, while another alarm is.
C7_Witness ==
    /\ Handled(message, "SaveAlarm")
    /\ saved_draft # << >>
    /\ saved_draft[1].id # << >>
    /\ \A i \in DOMAIN alarms : alarms[i].id # saved_draft[1].id[1]
    /\ alarms # << >>
    /\ editing_alarm = << >>

C9_SettersRecombine ==
    [][ /\ Handled(message', "SetTimerMinutes") =>
             /\ timer_duration' =
                   (message'[2] * 60 + ((timer_duration \div 1000) % 60)) * 1000
             /\ timer_remaining' = timer_duration'
             /\ timer_running' = timer_running
        /\ Handled(message', "SetTimerSeconds") =>
             /\ timer_duration' =
                   (((timer_duration \div 1000) \div 60) * 60 + message'[2]) * 1000
             /\ timer_remaining' = timer_duration'
             /\ timer_running' = timer_running ]_vars

\* C9 witness: minutes set to 2 on a duration of 5 min 30 s gives 2 min 30 s,
\* with the timer running.
C9_Witness ==
    /\ message = << "SetTimerMinutes", 2 >>
    /\ timer_duration = 150 * 1000
    /\ timer_remaining = timer_duration
    /\ timer_running

\* C10: StopStopwatch stops the stopwatch, leaves elapsed unchanged and sends
\* one StopwatchStopped with elapsed as hours, minutes and seconds, whether or
\* not the stopwatch was running.
C10_StopAlwaysNotifies ==
    [][ Handled(message', "StopStopwatch") =>
          /\ stopwatch_running' = FALSE
          /\ stopwatch_time' = stopwatch_time
          /\ notifications' =
                << << "StopwatchStopped",
                      << (stopwatch_time \div 1000) \div 3600,
                         ((stopwatch_time \div 1000) \div 60) % 60,
                         (stopwatch_time \div 1000) % 60 >> >> >> ]_vars

\* C10 witness: StopStopwatch has just sent the notification of a stopwatch
\* that had counted a second or more.
C10_Witness ==
    /\ Handled(message, "StopStopwatch")
    /\ stopwatch_time >= 1000
    /\ ~ stopwatch_running
    /\ notifications = << << "StopwatchStopped", << 0, 0, 1 >> >> >>

\* The names of the messages of the stopwatch.
StopwatchCommands == { "StartStopwatch", "StopStopwatch", "ResetStopwatch" }

\* C11: ResetStopwatch sets elapsed to 0 and stops the stopwatch from any
\* state; elapsed changes only by a tick while the stopwatch runs, which
\* raises it, or by ResetStopwatch; while the stopwatch does not run, a tick
\* or a message that is not one of the stopwatch's leaves elapsed and running
\* unchanged.
C11_ElapsedFrame ==
    [][ /\ Handled(message', "ResetStopwatch")
           => ( stopwatch_time' = 0 /\ stopwatch_running' = FALSE )
        /\ stopwatch_time' # stopwatch_time
           => \/ ( /\ Handled(message', "UpdateTime")
                   /\ stopwatch_running
                   /\ stopwatch_time' > stopwatch_time )
              \/ Handled(message', "ResetStopwatch")
        /\ ( ~ stopwatch_running /\ message'[1] \notin StopwatchCommands )
           => ( /\ stopwatch_time' = stopwatch_time
                /\ stopwatch_running' = stopwatch_running ) ]_vars

\* C11 witness: a tick of the 1 s stream has just landed on a stopped
\* stopwatch that had counted before, and elapsed is what it had counted.
C11_Witness ==
    /\ Handled(message, "UpdateTime")
    /\ ~ stopwatch_running
    /\ ~ timer_running
    /\ stopwatch_time = TickMillis
    /\ current_time - StartTime > 1000

\* A draft, when there is one, holds an hour of 0..23 and a minute of 0..59.
DraftInRange ==
    editing_alarm # << >>
    => ( editing_alarm[1].hour \in 0..23 /\ editing_alarm[1].minute \in 0..59 )
\* The time of day of an hour and a minute, second 0.
TimeOfDay(h, m) == ((h * 60 + m) * 60) * 1000
\* The positions of the alarms SaveAlarm writes for a draft: the alarm the
\* draft names, or the alarm added at the end of the list.
Written(list, after, edit) ==
    IF edit.id = << >>
    THEN { Len(after) }
    ELSE { i \in DOMAIN list : list[i].id = edit.id[1] }

\* C12: a draft's hour is in 0..23 and its minute in 0..59 in every state;
\* AlarmEditHour(h) stores h when h <= 23 and 23 otherwise, AlarmEditMinute(m)
\* stores m when m <= 59 and 59 otherwise; the time of day SaveAlarm writes is
\* the draft's hour and minute with second 0.
C12_DraftClamped ==
    [][ /\ DraftInRange'
        /\ ( Handled(message', "AlarmEditHour") /\ editing_alarm # << >> )
           => /\ editing_alarm' # << >>
              /\ editing_alarm'[1].hour =
                    (IF message'[2] <= 23 THEN message'[2] ELSE 23)
        /\ ( Handled(message', "AlarmEditMinute") /\ editing_alarm # << >> )
           => /\ editing_alarm' # << >>
              /\ editing_alarm'[1].minute =
                    (IF message'[2] <= 59 THEN message'[2] ELSE 59)
        /\ ( Handled(message', "SaveAlarm") /\ editing_alarm # << >> )
           => \A i \in Written(alarms, alarms', editing_alarm[1]) :
                 alarms'[i].time =
                    TimeOfDay(editing_alarm[1].hour, editing_alarm[1].minute) ]_vars

\* C12 witness: SaveAlarm has just written 23:59 for a draft whose hour was
\* typed as 24, over an alarm that was in the list.
C12_Witness ==
    /\ Handled(message, "SaveAlarm")
    /\ saved_draft # << >>
    /\ saved_draft[1].id # << >>
    /\ saved_draft[1].hour = 23
    /\ saved_draft[1].minute = 59
    /\ \E i \in DOMAIN alarms :
          /\ alarms[i].id = saved_draft[1].id[1]
          /\ alarms[i].time = TimeOfDay(23, 59)

\* C13: AddAlarm leaves one draft that names no alarm, with the hour and the
\* minute of the clock (the time of the last tick) and an empty label,
\* whatever draft there was before, and leaves the alarm list, the next id
\* and the clock unchanged.
C13_AddAlarmSeedsFromClock ==
    [][ Handled(message', "AddAlarm") =>
          /\ editing_alarm' =
                << [ id |-> << >>,
                     hour |-> (current_time % 86400000) \div 3600000,
                     minute |-> (current_time \div 60000) % 60,
                     label |-> "" ] >>
          /\ alarms' = alarms
          /\ next_alarm_id' = next_alarm_id
          /\ current_time' = current_time ]_vars

\* C13 witness: AddAlarm has just opened a draft for 08:00, the time of the
\* last tick, with an alarm saved at 07:59 in the list.
C13_Witness ==
    /\ Handled(message, "AddAlarm")
    /\ editing_alarm = << [ id |-> << >>, hour |-> 8, minute |-> 0, label |-> "" ] >>
    /\ alarms # << >>
    /\ alarms[1].time = TimeOfDay(7, 59)

\* The names of the messages that name an alarm by its id.
ById == { "EditAlarm", "DeleteAlarm", "ToggleAlarm" }
\* The ids of the alarms of a list.
IdsOf(list) == { list[i].id : i \in DOMAIN list }

\* C14: EditAlarm(id), DeleteAlarm(id) and ToggleAlarm(id) with an id that no
\* alarm of the list has leave the list, the next id, the draft, the
\* stopwatch and the timer unchanged and send nothing.
C14_AbsentIdIsNoOp ==
    [][ ( message'[1] \in ById /\ message'[2] \notin IdsOf(alarms) )
        => ( /\ alarms' = alarms
             /\ next_alarm_id' = next_alarm_id
             /\ editing_alarm' = editing_alarm
             /\ stopwatch_time' = stopwatch_time
             /\ stopwatch_running' = stopwatch_running
             /\ timer_duration' = timer_duration
             /\ timer_remaining' = timer_remaining
             /\ timer_running' = timer_running
             /\ notifications' = << >> ) ]_vars

\* C14 witness: EditAlarm has just named an alarm that was deleted, with a
\* draft open and another alarm in the list; the draft is still there.
C14_Witness ==
    /\ Handled(message, "EditAlarm")
    /\ message[2] \notin IdsOf(alarms)
    /\ message[2] < next_alarm_id
    /\ alarms # << >>
    /\ editing_alarm # << >>

\* C15: SaveAlarm of a draft that names an alarm of the list stores the
\* draft's time of day and label in that alarm and changes nothing else: the
\* alarm's id, enabled flag and position, the other alarms, the length of the
\* list and the next id stay, nothing is sent and the draft is cleared.
C15_SaveExistingInPlace ==
    [][ ( /\ Handled(message', "SaveAlarm")
          /\ editing_alarm # << >>
          /\ editing_alarm[1].id # << >>
          /\ editing_alarm[1].id[1] \in IdsOf(alarms) )
        => ( /\ Len(alarms') = Len(alarms)
             /\ \A i \in DOMAIN alarms :
                   /\ alarms'[i].id = alarms[i].id
                   /\ alarms'[i].enabled = alarms[i].enabled
                   /\ alarms[i].id # editing_alarm[1].id[1]
                      => alarms'[i] = alarms[i]
                   /\ alarms[i].id = editing_alarm[1].id[1]
                      => /\ alarms'[i].time =
                               TimeOfDay(editing_alarm[1].hour,
                                         editing_alarm[1].minute)
                         /\ alarms'[i].label = editing_alarm[1].label
             /\ next_alarm_id' = next_alarm_id
             /\ notifications' = << >>
             /\ editing_alarm' = << >> ) ]_vars

\* C15 witness: SaveAlarm has just stored a new minute and label in the
\* first of two alarms, which was disabled and still is.
C15_Witness ==
    /\ Handled(message, "SaveAlarm")
    /\ saved_draft # << >>
    /\ saved_draft[1].id # << >>
    /\ Len(alarms) = 2
    /\ alarms[1].id = saved_draft[1].id[1]
    /\ alarms[1].time = TimeOfDay(7, 1)
    /\ alarms[1].label = "wake"
    /\ ~ alarms[1].enabled
    /\ alarms[2].time = TimeOfDay(7, 59)
    /\ alarms[2].label = ""
    /\ editing_alarm = << >>

\* C16: while the timer runs, a tick that follows a tick takes from remaining
\* the wall time that has passed between the two, stopping at zero.
C16_RemainingFollowsWallTime ==
    [][ ( /\ Handled(message, "UpdateTime")
          /\ Handled(message', "UpdateTime")
          /\ timer_running )
        => timer_remaining' =
              (IF timer_remaining >= message'[2] - current_time
               THEN timer_remaining - (message'[2] - current_time)
               ELSE 0) ]_vars

\* The stopwatch or the timer runs and the 100 ms stream has ticked at each
\* of the ten 100 ms steps of the second that ends at the time of the clock.
RanThroughout ==
    /\ stopwatch_running \/ timer_running
    /\ \A k \in 0..9 : << 100, current_time - k * 100 >> \in ticks
\* Nothing runs and only the 1 s stream has ticked in the second that ends
\* at the time of the clock, the last time at the time of the clock.
IdleThroughout ==
    /\ ~ stopwatch_running /\ ~ timer_running
    /\ << 1000, current_time >> \in ticks
    /\ \A e \in ticks : e[1] = 1000

\* C17: the second that ends at the time of the clock holds 10 ticks when
\* the stopwatch or the timer ran through it and 1 tick when nothing ran.
C17_TicksPerSecond ==
    /\ RanThroughout
       => Cardinality({ e \in ticks : e[2] > current_time - 1000 }) = 10
    /\ IdleThroughout
       => Cardinality({ e \in ticks : e[2] > current_time - 1000 }) = 1

===========================================================================
